---- MODULE Spec2Model ----
(***************************************************************************)
(* A model of src/src/fibonacci.rs: the Fibonacci circuit's Config         *)
(* (configure, init, assign, expose_public), the MyCircuit driver          *)
(* (without_witnesses, configure, synthesize) and the mock checker's       *)
(* verdict on the synthesized trace (test_fib).                            *)
(*                                                                         *)
(* The code is generic in F: Field.  The model instantiates F as the       *)
(* integers modulo p, p being chosen when a behaviour starts.  Only        *)
(* addition, subtraction and multiplication by 0, 1, 2 occur.              *)
(***************************************************************************)
EXTENDS Integers, Sequences, FiniteSets, TLC

VARIABLES
    p,            \* the modulus of the field F of this run
    circuit,      \* MyCircuit { elem_1, elem_2 } as constructed by the caller
    pass,         \* "shape" (circuit.without_witnesses()) or "witness"
    cur,          \* the MyCircuit value synthesize runs on (self)
    pc,           \* the driver's position
    i,            \* the loop variable _i of synthesize
    cs,           \* the ConstraintSystem as left by configure
    rows,         \* the advice/selector table, one record per row
    copies,       \* the copy constraints between advice cells
    binding,      \* the copy constraints between an advice cell and an instance row
    elem_2,       \* synthesize's local handle elem_2
    elem_3,       \* synthesize's local handle elem_3
    fault,        \* the layouter call and region operation that returns Err
    log,          \* the Config operations called in this pass, in order
    shape,        \* the geometry the shape pass produced
    public_input, \* the instance vector handed to the checker
    verdict       \* the checker's verdict

vars == <<p, circuit, pass, cur, pc, i, cs, rows, copies, binding,
          elem_2, elem_3, fault, log, shape, public_input, verdict>>

(***************************************************************************)
(* Bounds of the model.                                                    *)
(***************************************************************************)
BigP == 61      \* a modulus above every literal of the test (55)
SmallP == 5     \* a modulus small enough to enumerate whole witnesses
MaxSeed == 4    \* seeds of the honest runs are 0..MaxSeed (inside the field)

(***************************************************************************)
(* Program constants.                                                      *)
(***************************************************************************)
LoopStart == 3
LoopEndShort == LoopStart + 6
LoopEnd == 10
PublicRow == 0
Expected == 55
RegionOps == 4

NumRegions == LoopEnd - LoopStart + 1

(***************************************************************************)
(* Value<F>: Known(x) or Unknown.  Field arithmetic modulo p.              *)
(***************************************************************************)
Field == 0 .. (p - 1)

Known(x) == [known |-> TRUE, v |-> x]
Unknown == [known |-> FALSE, v |-> 0]

FromU64(n) == n % p

Add(x, y) == (x + y) % p
Sub(x, y) == (x + p - y) % p
Mul(x, y) == (x * y) % p

ValueAddDouble(a, b) ==
    IF a.known /\ b.known THEN Known(Add(Add(a.v, b.v), b.v)) ELSE Unknown
ValueAdd(a, b) ==
    IF a.known /\ b.known THEN Known(Add(a.v, b.v)) ELSE Unknown

(***************************************************************************)
(* Cells, handles, rows.                                                   *)
(***************************************************************************)
Unassigned == [assigned |-> FALSE, value |-> Unknown]
Assigned(val) == [assigned |-> TRUE, value |-> val]

Addr(col, row) == [col |-> col, row |-> row]
Handle(col, row, val) == [col |-> col, row |-> row, value |-> val]
NoCell == [col |-> "none", row |-> 0, value |-> Unknown]
CellOf(h) == Addr(h.col, h.row)

\* The region's row after its first n operations (enable, elem_1, elem_2,
\* elem_3) have been applied.
RegionRowSkipUnknown(v1, v2, v3, n) ==
    [q_fib  |-> n >= 1,
     elem_1 |-> IF n >= 2 /\ v1.known THEN Assigned(v1) ELSE Unassigned,
     elem_2 |-> IF n >= 3 /\ v2.known THEN Assigned(v2) ELSE Unassigned,
     elem_3 |-> IF n >= 4 /\ v3.known THEN Assigned(v3) ELSE Unassigned]
RegionRowNoSelector(v1, v2, v3, n) ==
    [q_fib  |-> FALSE,
     elem_1 |-> IF n >= 2 THEN Assigned(v1) ELSE Unassigned,
     elem_2 |-> IF n >= 3 THEN Assigned(v2) ELSE Unassigned,
     elem_3 |-> IF n >= 4 THEN Assigned(v3) ELSE Unassigned]
RegionRow(v1, v2, v3, n) ==
    [q_fib  |-> n >= 1,
     elem_1 |-> IF n >= 2 THEN Assigned(v1) ELSE Unassigned,
     elem_2 |-> IF n >= 3 THEN Assigned(v2) ELSE Unassigned,
     elem_3 |-> IF n >= 4 THEN Assigned(v3) ELSE Unassigned]

\* Every region is one row (offset 0) over the same columns, so the floor
\* planner places it on the first row no earlier region uses.
RegionStart(rws) == Len(rws)

PlaceRegion(rws, row, n) == IF n = 0 THEN rws ELSE Append(rws, row)

\* copy_advice(src -> col at row): an assignment plus an equality constraint.
CopyPairSelf(src, col, row) == <<Addr(col, row), Addr(col, row)>>
CopyPair(src, col, row) == <<CellOf(src), Addr(col, row)>>

NoFault == [call |-> -1, op |-> 0]
Faults ==
    {NoFault}
    \cup {[call |-> c, op |-> o] : c \in 0 .. (NumRegions - 1), o \in 0 .. (RegionOps - 1)}
    \cup {[call |-> NumRegions, op |-> 0]}

\* The layouter calls of a pass are numbered from 0 (configure is not one).
CallIndex == Len(log) - 1
\* How many of the current call's operations succeed.
NOps(all) == IF fault.call = CallIndex THEN fault.op ELSE all

\* The ? operator: an Err ends synthesize at once.
PropagateIgnore(ok, next) == next
Propagate(ok, next) == IF ok THEN next ELSE "failed"

Entry(op, ok, b, c, row) == [op |-> op, ok |-> ok, prev_b |-> b, prev_c |-> c, row |-> row]

(***************************************************************************)
(* MyCircuit::without_witnesses: Self::default(), both values unknown.     *)
(***************************************************************************)
WithoutWitnesses(c) == [elem_1 |-> Unknown, elem_2 |-> Unknown]

NoCs == [advice |-> <<>>, instance |-> <<>>, equality |-> {}, selectors |-> {}, gates |-> {}]
NoGeometry == [nrows |-> -1, selectors |-> {}, cells |-> {}, copies |-> {}, binding |-> {}]

SeedVals == 0 .. (IF MaxSeed < p THEN MaxSeed ELSE p - 1)

InitCommon ==
    /\ pc = "uninit"
    /\ i = LoopStart
    /\ cs = NoCs
    /\ rows = <<>>
    /\ copies = {}
    /\ binding = {}
    /\ elem_2 = NoCell
    /\ elem_3 = NoCell
    /\ log = <<>>
    /\ shape = NoGeometry
    /\ public_input = <<>>
    /\ verdict = "none"

Init ==
    /\ p \in {SmallP, BigP}
    /\ \E a \in SeedVals, b \in SeedVals :
          circuit = [elem_1 |-> Known(a), elem_2 |-> Known(b)]
    /\ pass \in {"shape", "witness"}
    /\ cur = IF pass = "shape" THEN WithoutWitnesses(circuit) ELSE circuit
    /\ fault \in Faults
    /\ InitCommon

(***************************************************************************)
(* Config::configure (through MyCircuit::configure).                       *)
(***************************************************************************)
Configure ==
    /\ pc = "uninit"
    /\ cs' = [advice    |-> <<"elem_1", "elem_2", "elem_3">>,
              instance  |-> <<"instance">>,
              equality  |-> {"elem_1", "elem_2", "elem_3", "instance"},
              selectors |-> {"q_fib"},
              gates     |-> {"fibonacci"}]
    /\ pc' = "configured"
    /\ log' = Append(log, Entry("configure", TRUE, NoCell, NoCell, 0))
    /\ UNCHANGED <<p, circuit, pass, cur, i, rows, copies, binding,
                   elem_2, elem_3, fault, shape, public_input, verdict>>

(***************************************************************************)
(* Config::init as called by synthesize, with the three values the region  *)
(* assigns.                                                                *)
(***************************************************************************)
DoInit(v1, v2, v3) ==
    /\ pc = "configured"
    /\ LET n == NOps(RegionOps)
           row == RegionStart(rows)
           ok == n = RegionOps
       IN  /\ rows' = PlaceRegion(rows, RegionRow(v1, v2, v3, n), n)
           /\ elem_2' = IF ok THEN Handle("elem_2", row, v2) ELSE elem_2
           /\ elem_3' = IF ok THEN Handle("elem_3", row, v3) ELSE elem_3
           /\ pc' = Propagate(ok, "loop")
           /\ log' = Append(log, Entry("init", ok, NoCell, NoCell, row))
    /\ UNCHANGED <<p, circuit, pass, cur, i, cs, copies, binding,
                   fault, shape, public_input, verdict>>

InitRow == DoInit(cur.elem_1, cur.elem_2, ValueAdd(cur.elem_1, cur.elem_2))

(***************************************************************************)
(* One iteration of synthesize's loop: Config::assign on the two handles,  *)
(* then elem_2 = elem_3; elem_3 = new_elem_3.  v3 is the value the region  *)
(* assigns to elem_3; the first two cells are copies.                      *)
(***************************************************************************)
DoAssign(v1, v2, v3) ==
    /\ pc = "loop"
    /\ i < LoopEnd
    /\ LET n == NOps(RegionOps)
           row == RegionStart(rows)
           ok == n = RegionOps
       IN  /\ rows' = PlaceRegion(rows, RegionRow(v1, v2, v3, n), n)
           /\ copies' = copies
                \cup (IF n >= 2 THEN {CopyPair(elem_2, "elem_1", row)} ELSE {})
                \cup (IF n >= 3 THEN {CopyPair(elem_3, "elem_2", row)} ELSE {})
           /\ elem_2' = IF ok THEN elem_3 ELSE elem_2
           /\ elem_3' = IF ok THEN Handle("elem_3", row, v3) ELSE elem_3
           /\ i' = IF ok THEN i + 1 ELSE i
           /\ pc' = Propagate(ok, "loop")
           /\ log' = Append(log, Entry("assign", ok, elem_2, elem_3, row))
    /\ UNCHANGED <<p, circuit, pass, cur, cs, binding,
                   fault, shape, public_input, verdict>>

AssignRow == DoAssign(elem_2.value, elem_3.value, ValueAdd(elem_2.value, elem_3.value))

(***************************************************************************)
(* Config::expose_public(layouter, &elem_3, 0), then Ok(()).               *)
(***************************************************************************)
BoundCellWrong(b, c) == b
BoundCell(b, c) == c

ExposePublicInLoop ==
    /\ pc = "loop"
    /\ LET cell == BoundCell(elem_2, elem_3)
       IN  /\ binding' = binding \cup {<<CellOf(cell), PublicRow>>}
           /\ pc' = IF i = LoopEnd THEN "done" ELSE "loop"
           /\ log' = Append(log, Entry("expose_public", TRUE, NoCell, cell, PublicRow))
    /\ UNCHANGED <<p, circuit, pass, cur, i, cs, rows, copies,
                   elem_2, elem_3, fault, shape, public_input, verdict>>

ExposePublic ==
    /\ pc = "loop"
    /\ i = LoopEnd
    /\ LET ok == NOps(1) = 1
           cell == BoundCell(elem_2, elem_3)
       IN  /\ binding' = IF ok THEN binding \cup {<<CellOf(cell), PublicRow>>} ELSE binding
           /\ pc' = Propagate(ok, "done")
           /\ log' = Append(log, Entry("expose_public", ok, NoCell, cell, PublicRow))
    /\ UNCHANGED <<p, circuit, pass, cur, i, cs, rows, copies,
                   elem_2, elem_3, fault, shape, public_input, verdict>>

(***************************************************************************)
(* The gate registered by configure: q_fib * (elem_1 + elem_2 - elem_3).   *)
(***************************************************************************)
GateFib(q, e1, e2, e3) == Mul(q, Sub(Add(e1, e2), e3))

(***************************************************************************)
(* The checker (MockProver::run(..).assert_satisfied() in test_fib): every *)
(* gate vanishes on every row, every copy constraint holds, and every      *)
(* bound cell equals its instance entry.                                   *)
(***************************************************************************)
CellAt(rws, a) == rws[a.row + 1][a.col]
CellVal(c) == c.value.v
Bit(b) == IF b THEN 1 ELSE 0

RowAssigned(w) == w.elem_1.assigned /\ w.elem_2.assigned /\ w.elem_3.assigned

GatesHold(rws) ==
    \A r \in 1 .. Len(rws) :
        LET w == rws[r]
        IN  /\ w.q_fib => RowAssigned(w)
            /\ GateFib(Bit(w.q_fib), CellVal(w.elem_1), CellVal(w.elem_2), CellVal(w.elem_3)) = 0

CopiesHold(rws, cps) ==
    \A c \in cps : CellVal(CellAt(rws, c[1])) = CellVal(CellAt(rws, c[2]))

BindingHolds(rws, bnd, inst) ==
    \A b \in bnd :
        /\ b[2] + 1 \in 1 .. Len(inst)
        /\ CellVal(CellAt(rws, b[1])) = inst[b[2] + 1]

Satisfied(rws, cps, bnd, inst) ==
    /\ GatesHold(rws)
    /\ CopiesHold(rws, cps)
    /\ BindingHolds(rws, bnd, inst)

Verify ==
    /\ pc = "done"
    /\ pass = "witness"
    /\ \E x \in Field :
          /\ public_input' = <<x>>
          /\ verdict' = IF Satisfied(rows, copies, binding, <<x>>)
                        THEN "satisfied" ELSE "unsatisfied"
    /\ pc' = "verified"
    /\ UNCHANGED <<p, circuit, pass, cur, i, cs, rows, copies, binding,
                   elem_2, elem_3, fault, log, shape>>

(***************************************************************************)
(* The geometry of a pass: everything but the cell values.                 *)
(***************************************************************************)
Cols == {"elem_1", "elem_2", "elem_3"}

Geometry ==
    [nrows     |-> Len(rows),
     selectors |-> {r \in 1 .. Len(rows) : rows[r].q_fib},
     cells     |-> {a \in Cols \X (1 .. Len(rows)) : rows[a[2]][a[1]].assigned},
     copies    |-> copies,
     binding   |-> binding]

(***************************************************************************)
(* After the shape pass (the circuit without witnesses) the same circuit   *)
(* is synthesized again with its witnesses, on a fresh constraint system   *)
(* and layouter.                                                           *)
(***************************************************************************)
StartWitnessPass ==
    /\ pc = "done"
    /\ pass = "shape"
    /\ shape' = Geometry
    /\ pass' = "witness"
    /\ cur' = circuit
    /\ fault' \in Faults
    /\ pc' = "uninit"
    /\ i' = LoopStart
    /\ cs' = NoCs
    /\ rows' = <<>>
    /\ copies' = {}
    /\ binding' = {}
    /\ elem_2' = NoCell
    /\ elem_3' = NoCell
    /\ log' = <<>>
    /\ UNCHANGED <<p, circuit, public_input, verdict>>

Next ==
    \/ Configure
    \/ InitRow
    \/ AssignRow
    \/ ExposePublic
    \/ Verify
    \/ StartWitnessPass

Spec == Init /\ [][Next]_vars

(***************************************************************************)
(* The constraint system against an arbitrary witness.  The geometry is    *)
(* the one init, assign and expose_public lay out (same regions, selector  *)
(* activations, copy constraints and binding), but the three values of     *)
(* every row are any field elements at all.  A table whose first rows      *)
(* already break a gate or a copy constraint stays broken whatever is      *)
(* added below them, so only tables that satisfy the checker so far are    *)
(* extended; the newest row is always unconstrained.                       *)
(***************************************************************************)
AdvInit ==
    /\ p = SmallP
    /\ circuit = [elem_1 |-> Known(0), elem_2 |-> Known(0)]
    /\ pass = "witness"
    /\ cur = circuit
    /\ fault = NoFault
    /\ InitCommon

AdvInitRow ==
    \E e1 \in Field, e2 \in Field, e3 \in Field :
        DoInit(Known(e1), Known(e2), Known(e3))

AdvAssignRow ==
    /\ GatesHold(rows)
    /\ CopiesHold(rows, copies)
    /\ \E e1 \in Field, e2 \in Field, e3 \in Field :
          DoAssign(Known(e1), Known(e2), Known(e3))

AdvNext ==
    \/ Configure
    \/ AdvInitRow
    \/ AdvAssignRow
    \/ ExposePublic
    \/ Verify

AdvSpec == AdvInit /\ [][AdvNext]_vars

(***************************************************************************)
(* Definitions the properties below are stated with.                       *)
(***************************************************************************)
\* Term n of the sequence t0 = a, t1 = b, tn = t(n-1) + t(n-2) in the field.
RECURSIVE Term(_, _, _)
Term(n, a, b) ==
    IF n = 0 THEN a
    ELSE IF n = 1 THEN b
    ELSE Add(Term(n - 1, a, b), Term(n - 2, a, b))

\* The number of assign calls that have returned Ok in this pass.
Steps == i - LoopStart

SeedA == circuit.elem_1.v
SeedB == circuit.elem_2.v

\* A pass that has got past init with no error so far.
RowReady == pc \in {"loop", "done", "verified"}

LastElem3 == CellAt(rows, Addr("elem_3", Len(rows) - 1))

ConcreteScenario ==
    /\ pass = "witness"
    /\ circuit = [elem_1 |-> Known(FromU64(1)), elem_2 |-> Known(FromU64(1))]

\* The operation the driver calls k-th in a pass.
CanonOp(k) ==
    IF k = 1 THEN "configure"
    ELSE IF k = 2 THEN "init"
    ELSE IF k <= NumRegions + 1 THEN "assign"
    ELSE "expose_public"

\* The checker's verdict on the rows and copy constraints alone, with the
\* gate relation replaced by elem_1 + 2*elem_2 - elem_3.
GateAlt(q, e1, e2, e3) == Mul(q, Sub(Add(e1, Mul(2, e2)), e3))

AltGatesHold(rws) ==
    \A r \in 1 .. Len(rws) :
        LET w == rws[r]
        IN  /\ w.q_fib => RowAssigned(w)
            /\ GateAlt(Bit(w.q_fib), CellVal(w.elem_1), CellVal(w.elem_2), CellVal(w.elem_3)) = 0

AltUnsatisfied == ~(AltGatesHold(rows) /\ CopiesHold(rows, copies))

(***************************************************************************)
(* C1. After init(a, b) and k chained assign calls the last elem_3 cell,   *)
(* and the handle the driver holds to it, carry term k+2 of the sequence   *)
(* t0 = a, t1 = b, tn = t(n-1) + t(n-2) computed in the field.             *)
(***************************************************************************)
C1_Recurrence ==
    (pass = "witness" /\ RowReady) =>
        /\ elem_3 = Handle("elem_3", Len(rows) - 1, Known(Term(Steps + 2, SeedA, SeedB)))
        /\ LastElem3 = Assigned(Known(Term(Steps + 2, SeedA, SeedB)))

C1_Witness ==
    /\ pass = "witness"
    /\ pc = "done"
    /\ Steps = LoopEnd - LoopStart
    /\ p = BigP
    /\ SeedA = 3
    /\ SeedB = 4
    /\ elem_3.value.v = (21 * 3 + 34 * 4) % p
    /\ elem_3.value.v < 21 * 3 + 34 * 4

(***************************************************************************)
(* C2. On the trace of init, the assign calls and expose_public(final      *)
(* elem_3, slot 0) the checker reports satisfied exactly when the public   *)
(* input's entry at the bound slot equals the final cell's value.          *)
(***************************************************************************)
C2_PublicBinding ==
    pc = "verified" =>
        /\ verdict \in {"satisfied", "unsatisfied"}
        /\ (verdict = "satisfied") <=> (public_input[PublicRow + 1] = CellVal(LastElem3))

C2_Witness ==
    /\ pc = "verified"
    /\ verdict = "unsatisfied"
    /\ public_input[PublicRow + 1] # CellVal(LastElem3)
    /\ SeedA # 0

(***************************************************************************)
(* C3. Seeds 1, 1 and seven assign calls: the final elem_3 value is 55;    *)
(* the public input [55] is satisfied and [54] is unsatisfied.             *)
(***************************************************************************)
C3_Concrete ==
    ConcreteScenario =>
        /\ pc \in {"done", "verified"} =>
              /\ Steps = 7
              /\ CellVal(LastElem3) = FromU64(Expected)
        /\ (pc = "verified" /\ public_input = <<FromU64(Expected)>>)
              => verdict = "satisfied"
        /\ (pc = "verified" /\ public_input = <<FromU64(Expected - 1)>>)
              => verdict = "unsatisfied"

C3_Witness ==
    /\ ConcreteScenario
    /\ p = BigP
    /\ pc = "verified"
    /\ public_input = <<Expected>>
    /\ verdict = "satisfied"
    /\ CellVal(LastElem3) = Expected

(***************************************************************************)
(* C4. The pass with known seeds lays out exactly the geometry the pass    *)
(* with unknown seeds laid out before it: the same rows, selector          *)
(* activations, assigned cells, copy constraints and public binding.       *)
(***************************************************************************)
C4_DualPass ==
    (pass = "witness" /\ shape # NoGeometry /\ pc \in {"done", "verified"}) =>
        Geometry = shape

C4_Witness ==
    /\ pass = "witness"
    /\ pc = "done"
    /\ shape # NoGeometry
    /\ shape.nrows = NumRegions
    /\ Cardinality(shape.cells) = 3 * NumRegions
    /\ LastElem3.value.known

(***************************************************************************)
(* C5 as stated. Every honestly summed trace of init and k assign calls    *)
(* is reported unsatisfied once the gate relation is                       *)
(* q_fib * (elem_1 + 2*elem_2 - elem_3).                                   *)
(***************************************************************************)
C5_Original ==
    (pass = "witness" /\ RowReady) => AltUnsatisfied

(***************************************************************************)
(* C5 amended. An honestly summed trace is reported unsatisfied under the  *)
(* relation q_fib * (elem_1 + 2*elem_2 - elem_3) exactly when some row's   *)
(* elem_2 is not zero, that is unless b = 0 and (k = 0 or a = 0).          *)
(***************************************************************************)
C5_Amended ==
    (pass = "witness" /\ RowReady) =>
        /\ AltUnsatisfied <=> (SeedB # 0 \/ (Steps >= 1 /\ SeedA # 0))
        /\ AltUnsatisfied <=> (\E r \in 1 .. Len(rows) : CellVal(rows[r].elem_2) # 0)

C5_Witness ==
    /\ pass = "witness"
    /\ pc = "done"
    /\ SeedA = 1
    /\ SeedB = 1
    /\ AltUnsatisfied
    /\ GatesHold(rows)

(***************************************************************************)
(* C6. A pass calls configure, then init once, then assign, then           *)
(* expose_public once and last; nothing runs out of that order.            *)
(***************************************************************************)
C6_Order ==
    /\ Len(log) <= NumRegions + 2
    /\ \A k \in 1 .. Len(log) : log[k].op = CanonOp(k)
    /\ (pc = "uninit") <=> (log = <<>>)
    /\ (pc = "configured") <=> (Len(log) = 1)
    /\ (pc = "loop") => (Len(log) = Steps + 2 /\ Len(rows) = Steps + 1)
    /\ (pc \in {"done", "verified"}) => (Len(log) = NumRegions + 2 /\ binding # {})
    /\ (pc \notin {"done", "verified", "failed"}) => binding = {}

C6_Witness ==
    /\ pc = "done"
    /\ Len(log) = NumRegions + 2
    /\ log[Len(log)].op = "expose_public"
    /\ log[2].op = "init"
    /\ log[3].op = "assign"

(***************************************************************************)
(* C7. Every assign call's new elem_1 cell holds the value of the previous *)
(* row's elem_2 and its new elem_2 cell the value of the previous row's    *)
(* elem_3, and each is tied by a copy constraint to the handle it was      *)
(* copied from.                                                            *)
(***************************************************************************)
C7_CopyFidelity ==
    \A k \in 1 .. Len(log) :
        (log[k].op = "assign" /\ log[k].row < Len(rows)) =>
            LET e == log[k]
                new == rows[e.row + 1]
                prev == rows[e.row]
            IN  /\ e.row >= 1
                /\ new.elem_1.assigned =>
                      /\ new.elem_1.value = prev.elem_2.value
                      /\ new.elem_1.value = e.prev_b.value
                      /\ <<CellOf(e.prev_b), Addr("elem_1", e.row)>> \in copies
                      /\ CellAt(rows, CellOf(e.prev_b)) = Assigned(e.prev_b.value)
                /\ new.elem_2.assigned =>
                      /\ new.elem_2.value = prev.elem_3.value
                      /\ new.elem_2.value = e.prev_c.value
                      /\ <<CellOf(e.prev_c), Addr("elem_2", e.row)>> \in copies
                      /\ CellOf(e.prev_c) = Addr("elem_3", e.row - 1)

C7_Witness ==
    /\ pass = "witness"
    /\ pc = "loop"
    /\ Steps = 2
    /\ rows[3].elem_1.value = rows[2].elem_2.value
    /\ rows[3].elem_1.value.v # 0
    /\ <<Addr("elem_3", 0), Addr("elem_1", 2)>> \in copies

(***************************************************************************)
(* C8. An error from init, an assign call or expose_public ends the pass   *)
(* there: it is the last operation, no later region is laid out, the       *)
(* public binding is not made, and nothing runs afterwards.                *)
(***************************************************************************)
C8_Abort ==
    /\ \A k \in 1 .. Len(log) : ~log[k].ok => (k = Len(log) /\ pc = "failed")
    /\ pc = "failed" =>
          /\ ~log[Len(log)].ok
          /\ log[Len(log)].op \in {"init", "assign", "expose_public"}
          /\ Len(rows) <= Len(log) - 1
          /\ binding = {}
          /\ verdict = "none"
          /\ ~ENABLED Next

C8_Witness ==
    /\ pc = "failed"
    /\ log[Len(log)].op = "assign"
    /\ Len(log) = 4
    /\ Len(rows) = 3
    /\ ~rows[3].elem_3.assigned
    /\ rows[3].elem_1.assigned

(***************************************************************************)
(* C9 as stated. With seeds 1, 1 and seven assign calls the trace has 9    *)
(* rows, the initializer's row included.                                   *)
(***************************************************************************)
C9_Original ==
    (ConcreteScenario /\ pc \in {"done", "verified"}) => Len(rows) = 9

(***************************************************************************)
(* C9 amended. With seeds 1, 1 and seven assign calls the trace has 8      *)
(* rows, the initializer's row included: one per region.                   *)
(***************************************************************************)
C9_Amended ==
    (ConcreteScenario /\ pc \in {"done", "verified"}) =>
        /\ Steps = 7
        /\ Len(rows) = 8
        /\ \A r \in 1 .. Len(rows) : rows[r].q_fib

C9_Witness ==
    /\ ConcreteScenario
    /\ p = BigP
    /\ pc = "done"
    /\ Len(rows) = 8
    /\ CellVal(LastElem3) = Expected

(***************************************************************************)
(* C10. Whatever values fill the cells of the rows init and the assign     *)
(* calls lay out: if the gate holds on every selector-active row and every *)
(* copy constraint holds, the last elem_3 cell (the one expose_public      *)
(* binds) is term k+2 of the sequence seeded by row 0's elem_1 and elem_2, *)
(* and the checker is satisfied by no other public input.                  *)
(***************************************************************************)
C10_Soundness ==
    /\ (RowReady /\ GatesHold(rows) /\ CopiesHold(rows, copies)) =>
          CellVal(LastElem3) =
              Term(Steps + 2, CellVal(rows[1].elem_1), CellVal(rows[1].elem_2))
    /\ (pc = "verified" /\ verdict = "satisfied") =>
          /\ binding = {<<Addr("elem_3", Len(rows) - 1), PublicRow>>}
          /\ public_input[PublicRow + 1] =
                Term(NumRegions + 1, CellVal(rows[1].elem_1), CellVal(rows[1].elem_2))

C10_Witness ==
    /\ pc = "verified"
    /\ verdict = "satisfied"
    /\ CellVal(rows[1].elem_1) = 2
    /\ CellVal(rows[1].elem_2) = 3
    /\ public_input[PublicRow + 1] = Term(NumRegions + 1, 2, 3)

====
